---- MODULE Spec2Model ----
(* Model of Audits/PythonAV.py: audit_files_with_clamav(start_path), a        *)
(* single-threaded os.walk over a directory tree that runs clamscan on every  *)
(* entry accepted by os.path.isfile and logs the outcome.                     *)
EXTENDS Integers, Sequences, FiniteSets, TLC

VARIABLES pc, rootKind, log, inaccessible_dirs, stack, root, dirs, files, idx,
          process, st, scans, checked, visited, listFailed

vars == <<pc, rootKind, log, inaccessible_dirs, stack, root, dirs, files, idx,
          process, st, scans, checked, visited, listFailed>>

----------------------------------------------------------------------------
(* Bounds of the explored file system and scanner behaviour.                 *)

\* number of subdirectories directly under the scan root
NumSub == 2
\* number of file entries directly under the scan root
NumFiles == 1
\* largest scanner exit code explored
MaxRc == 2

----------------------------------------------------------------------------
(* The file system: paths are sequences of names; a name is <<"d", i>> for a *)
(* directory entry and <<"f", j>> for a non-directory entry.                 *)

start_path == <<>>

join(path, name) == Append(path, name)

DirName(i) == <<"d", i>>
FileName(j) == <<"f", j>>

\* names that scandir reports as directories in directory d, in listing order:
\* the root has NumSub subdirectories, the first of which has one nested
\* directory; every other directory is a leaf
DirNames(d) ==
    IF d = start_path THEN [i \in 1..NumSub |-> DirName(i)]
    ELSE IF d = <<DirName(1)>> THEN <<DirName(1)>>
    ELSE <<>>

\* names that scandir reports as non-directories in directory d: NumFiles
\* entries in the root, one in every leaf directory
FileNames(d) ==
    IF d = start_path THEN [j \in 1..NumFiles |-> FileName(j)]
    ELSE IF DirNames(d) # <<>> THEN <<>>
    ELSE <<FileName(1)>>

RECURSIVE DirsBelow(_)
DirsBelow(d) ==
    LET sub == {join(d, DirNames(d)[i]) : i \in 1..Len(DirNames(d))}
    IN  sub \cup UNION {DirsBelow(s) : s \in sub}

AllDirs == {start_path} \cup DirsBelow(start_path)

FilesOf(d) == {join(d, FileNames(d)[j]) : j \in 1..Len(FileNames(d))}

IsPrefix(p, q) == Len(p) <= Len(q) /\ SubSeq(q, 1, Len(p)) = p

\* what a path can be when os.path.isfile stats it: a regular file, a
\* symbolic link to a regular file, a FIFO, or nothing (removed since listing)
Nodes == {[type |-> "reg",  target |-> "reg"],
          [type |-> "lnk",  target |-> "reg"],
          [type |-> "fifo", target |-> "fifo"],
          [type |-> "none", target |-> "none"]}

\* os.stat follows symbolic links
Stat(node) == IF node.type = "lnk" THEN node.target ELSE node.type

\* os.path.isfile: S_ISREG of the followed stat; False when stat fails
isfile(node) == Stat(node) = "reg"

isdir_alt(kind) == kind # "missing"
\* os.path.isdir on the start path
isdir(kind) == kind = "dir"

----------------------------------------------------------------------------
(* Logging.                                                                  *)

LevelNo(level) ==
    CASE level = "DEBUG"   -> 10
      [] level = "INFO"    -> 20
      [] level = "WARNING" -> 30
      [] level = "ERROR"   -> 40

RootLevel_warning == "WARNING"
\* logging.basicConfig(level=logging.INFO)
RootLevel == "INFO"

Line(level, msg, path, rc, text) ==
    [level |-> level, msg |-> msg, path |-> path, rc |-> rc, text |-> text]

\* a record is emitted only at or above the configured level
Emit(lg, rec) == IF LevelNo(rec.level) >= LevelNo(RootLevel) THEN Append(lg, rec) ELSE lg

RECURSIVE EmitAll(_, _)
EmitAll(lg, recs) ==
    IF recs = <<>> THEN lg ELSE EmitAll(Emit(lg, Head(recs)), Tail(recs))

IsSpace(ch) == ch \in {" ", "\n", "\t"}

RECURSIVE lstrip(_)
lstrip(s) == IF s # <<>> /\ IsSpace(Head(s)) THEN lstrip(Tail(s)) ELSE s

RECURSIVE rstrip(_)
rstrip(s) == IF s # <<>> /\ IsSpace(s[Len(s)]) THEN rstrip(SubSeq(s, 1, Len(s) - 1)) ELSE s

\* str.strip()
strip(s) == rstrip(lstrip(s))

----------------------------------------------------------------------------
(* The scanner subprocess.                                                   *)

Stdout == <<" ", "F", "O", "U", "N", "D", "\n">>
Stderr == <<"\n", "E", "R", "R", " ">>

NoProcess == [returncode |-> -1, stdout |-> <<>>, stderr |-> <<>>]

CompletedProcess(c) == [returncode |-> c, stdout |-> Stdout, stderr |-> Stderr]

\* exit statuses of the child
ReturnCodes == 0..MaxRc

\* subprocess.run either returns a CompletedProcess or raises
RunOutcomes ==
    {[raised |-> "None", proc |-> CompletedProcess(c)] : c \in ReturnCodes}
    \cup {[raised |-> e, proc |-> NoProcess] : e \in {"FileNotFoundError", "PermissionError"}}

\* exception classes of an exception, most specific first
Mro(e) ==
    CASE e = "FileNotFoundError" -> {"FileNotFoundError", "OSError", "Exception"}
      [] e = "PermissionError"   -> {"PermissionError", "OSError", "Exception"}
      [] OTHER                    -> {}

InnerCatch_narrow(e) ==
    IF "FileNotFoundError" \in Mro(e) THEN "fnf"
    ELSE IF "SubprocessError" \in Mro(e) THEN "unexpected"
    ELSE "uncaught"
\* the except clauses of the per-file try
InnerCatch(e) ==
    IF "FileNotFoundError" \in Mro(e) THEN "fnf"
    ELSE IF "Exception" \in Mro(e) THEN "unexpected"
    ELSE "uncaught"

\* the except clauses of the per-directory try
OuterCatch(e) ==
    IF "PermissionError" \in Mro(e) THEN "perm"
    ELSE IF "Exception" \in Mro(e) THEN "traversal"
    ELSE "uncaught"

\* the handler that runs for an exception raised by subprocess.run
Handler(e) == IF InnerCatch(e) # "uncaught" THEN InnerCatch(e) ELSE OuterCatch(e)

HandlerExit_noreturn(h) ==
    CASE h = "fnf"        -> "next_file"
      [] h = "unexpected" -> "next_file"
      [] h = "perm"       -> "next_dir"
      [] h = "traversal"  -> "next_dir"
      [] OTHER            -> "raise"
\* where control goes when a handler finishes
HandlerExit(h) ==
    CASE h = "fnf"        -> "return"
      [] h = "unexpected" -> "next_file"
      [] h = "perm"       -> "next_dir"
      [] h = "traversal"  -> "next_dir"
      [] OTHER            -> "raise"

ResultLines_ge1(file_path, p) ==
    IF p.returncode = 0 THEN
        <<Line("INFO", "CLEAN", file_path, 0, <<>>)>>
    ELSE IF p.returncode >= 1 THEN
        <<Line("WARNING", "INFECTED", file_path, 0, <<>>),
          Line("WARNING", "ClamAV Output", <<>>, 0, strip(p.stdout))>>
    ELSE
        <<Line("ERROR", "ERROR scanning", file_path, p.returncode, <<>>),
          Line("ERROR", "ClamAV Stderr", <<>>, 0, strip(p.stderr))>>
\* the log calls made for a returned scan
ResultLines(file_path, p) ==
    IF p.returncode = 0 THEN
        <<Line("INFO", "CLEAN", file_path, 0, <<>>)>>
    ELSE IF p.returncode = 1 THEN
        <<Line("WARNING", "INFECTED", file_path, 0, <<>>),
          Line("WARNING", "ClamAV Output", <<>>, 0, strip(p.stdout))>>
    ELSE
        <<Line("ERROR", "ERROR scanning", file_path, p.returncode, <<>>),
          Line("ERROR", "ClamAV Stderr", <<>>, 0, strip(p.stderr))>>

\* the log calls made by a handler
HandlerLines(h, e, file_path, d) ==
    CASE h = "fnf"        -> <<Line("ERROR", "clamscan not found", <<>>, 0, <<>>)>>
      [] h = "unexpected" -> <<Line("ERROR", "unexpected error", file_path, 0, <<e>>)>>
      [] h = "perm"       -> <<Line("WARNING", "Permission denied", d, 0, <<>>)>>
      [] h = "traversal"  -> <<Line("ERROR", "traversal error", d, 0, <<e>>)>>
      [] OTHER            -> <<>>

----------------------------------------------------------------------------
(* os.walk(top), top-down, onerror=None, followlinks=False.                  *)

\* what os.scandir(d) can do
ScandirOutcomes(d) ==
    IF d = start_path /\ rootKind = "file" THEN {"NotADirectoryError"}
    ELSE IF d = start_path /\ rootKind = "missing" THEN {"FileNotFoundError"}
    ELSE {"ok", "PermissionError", "OSError"}

PushDirs_twice(stk, top, names) ==
    [i \in 1..Len(names) |-> join(top, names[i])] \o
    [i \in 1..Len(names) |-> join(top, names[i])] \o stk
\* when the generator is resumed, the (possibly edited) dirs list is queued
\* for walking, first name first, ahead of what was pending
PushDirs(stk, top, names) == [i \in 1..Len(names) |-> join(top, names[i])] \o stk

----------------------------------------------------------------------------
Init ==
    /\ pc = "entry"
    /\ rootKind \in {"dir", "file", "missing"}
    /\ log = <<>>
    /\ inaccessible_dirs = {}
    /\ stack = <<>>
    /\ root = start_path
    /\ dirs = <<>>
    /\ files = <<>>
    /\ idx = 1
    /\ process = NoProcess
    /\ st = [path |-> start_path, node |-> [type |-> "none", target |-> "none"]]
    /\ scans = <<>>
    /\ checked = {}
    /\ visited = <<>>
    /\ listFailed = {}

\* entry check, start line, and creation of the walk
Start ==
    /\ pc = "entry"
    /\ IF ~isdir(rootKind)
       THEN /\ log' = Emit(log, Line("ERROR", "not a valid directory", start_path, 0, <<>>))
            /\ pc' = "done"
            /\ stack' = stack
       ELSE /\ log' = Emit(log, Line("INFO", "Starting", start_path, 0, <<>>))
            /\ pc' = "walk"
            /\ stack' = <<start_path>>
    /\ inaccessible_dirs' = {}
    /\ UNCHANGED <<rootKind, root, dirs, files, idx, process, st, scans, checked, visited,
                   listFailed>>

\* the generator lists the next pending directory; a listing error is
\* swallowed (onerror is None) and the directory is not yielded
WalkNext ==
    /\ pc = "walk"
    /\ stack # <<>>
    /\ LET top == Head(stack) IN
       \E o \in ScandirOutcomes(top) :
          IF o = "ok"
          THEN /\ root' = top
               /\ dirs' = DirNames(top)
               /\ files' = FileNames(top)
               /\ stack' = Tail(stack)
               /\ visited' = Append(visited, top)
               /\ pc' = "body"
               /\ UNCHANGED listFailed
          ELSE /\ stack' = Tail(stack)
               /\ listFailed' = listFailed \cup {[path |-> top, err |-> o]}
               /\ UNCHANGED <<root, dirs, files, visited, pc>>
    /\ UNCHANGED <<rootKind, log, inaccessible_dirs, idx, process, st, scans, checked>>

\* top of the loop body: the membership test on inaccessible_dirs
VisitDir ==
    /\ pc = "body"
    /\ IF root \in inaccessible_dirs
       THEN /\ dirs' = <<>>
            /\ stack' = PushDirs(stack, root, <<>>)
            /\ pc' = "walk"
            /\ idx' = idx
       ELSE /\ idx' = 1
            /\ pc' = "files"
            /\ UNCHANGED <<dirs, stack>>
    /\ UNCHANGED <<rootKind, log, inaccessible_dirs, root, files, process, st, scans,
                   checked, visited, listFailed>>

\* one iteration of the loop over files
FileStep ==
    /\ pc = "files"
    /\ idx <= Len(files)
    /\ LET file_path == join(root, files[idx]) IN
       \E node \in Nodes :
          /\ st' = [path |-> file_path, node |-> node]
          /\ checked' = checked \cup {file_path}
          /\ IF ~isfile(node)
             THEN /\ idx' = idx + 1
                  /\ UNCHANGED <<pc, log, process, scans, inaccessible_dirs, dirs, stack>>
             ELSE \E o \in RunOutcomes :
                  LET lg0 == Emit(log, Line("DEBUG", "Scanning", file_path, 0, <<>>))
                      h   == Handler(o.raised)
                      ex  == HandlerExit(h)
                  IN  /\ scans' = Append(scans, [path |-> file_path, type |-> node.type,
                                                 result |-> o.raised])
                      /\ IF o.raised = "None"
                         THEN /\ process' = o.proc
                              /\ log' = EmitAll(lg0, ResultLines(file_path, o.proc))
                              /\ idx' = idx + 1
                              /\ UNCHANGED <<pc, inaccessible_dirs, dirs, stack>>
                         ELSE /\ process' = process
                              /\ log' = EmitAll(lg0, HandlerLines(h, o.raised, file_path, root))
                              /\ inaccessible_dirs' =
                                    IF h = "perm" THEN inaccessible_dirs \cup {root}
                                    ELSE inaccessible_dirs
                              /\ dirs' = IF h = "perm" THEN <<>> ELSE dirs
                              /\ idx' = IF ex = "next_file" THEN idx + 1 ELSE idx
                              /\ pc' = CASE ex = "return"    -> "done"
                                         [] ex = "next_file" -> "files"
                                         [] ex = "next_dir"  -> "walk"
                                         [] OTHER            -> "raised"
                              /\ stack' = IF ex = "next_dir"
                                          THEN PushDirs(stack, root, dirs')
                                          ELSE stack
    /\ UNCHANGED <<rootKind, root, files, visited, listFailed>>

\* the loop over files is exhausted: the generator is resumed
EndFiles ==
    /\ pc = "files"
    /\ idx > Len(files)
    /\ stack' = PushDirs(stack, root, dirs)
    /\ pc' = "walk"
    /\ UNCHANGED <<rootKind, log, inaccessible_dirs, root, dirs, files, idx, process, st,
                   scans, checked, visited, listFailed>>

\* the walk is exhausted: the completion line
Finish ==
    /\ pc = "walk"
    /\ stack = <<>>
    /\ log' = Emit(log, Line("INFO", "audit completed", <<>>, 0, <<>>))
    /\ pc' = "done"
    /\ UNCHANGED <<rootKind, inaccessible_dirs, stack, root, dirs, files, idx, process, st,
                   scans, checked, visited, listFailed>>

Next == Start \/ WalkNext \/ VisitDir \/ FileStep \/ EndFiles \/ Finish

Spec == Init /\ [][Next]_vars

\* the interpreter keeps running the single thread until the function returns
FairSpec == Spec /\ WF_vars(Next)

----------------------------------------------------------------------------
(* Properties.                                                               *)

Last(s) == s[Len(s)]

Count(msg) == Cardinality({i \in DOMAIN log : log[i].msg = msg})

ClassMsgs == {"CLEAN", "INFECTED", "ERROR scanning"}

\* number of Clean / Infected / ScanError lines logged for path p
ClassCount(p) ==
    Cardinality({i \in DOMAIN log : log[i].msg \in ClassMsgs /\ log[i].path = p})

Raised(e) == \E i \in DOMAIN scans : scans[i].result = e

ScanReturned == Len(scans') = Len(scans) + 1 /\ Last(scans').result = "None"

ExpectedLines(p, c) ==
    IF c = 0 THEN
        <<[level |-> "INFO", msg |-> "CLEAN", path |-> p, rc |-> 0, text |-> <<>>]>>
    ELSE IF c = 1 THEN
        <<[level |-> "WARNING", msg |-> "INFECTED", path |-> p, rc |-> 0, text |-> <<>>],
          [level |-> "WARNING", msg |-> "ClamAV Output", path |-> <<>>, rc |-> 0,
           text |-> <<"F", "O", "U", "N", "D">>]>>
    ELSE
        <<[level |-> "ERROR", msg |-> "ERROR scanning", path |-> p, rc |-> c, text |-> <<>>],
          [level |-> "ERROR", msg |-> "ClamAV Stderr", path |-> <<>>, rc |-> 0,
           text |-> <<"E", "R", "R">>]>>

\* C1: whenever the scanner is launched on a path and returns exit code c, the
\* step appends to the log exactly the lines fixed by c (0: one INFO CLEAN
\* line; 1: WARNING INFECTED then WARNING with the trimmed stdout; otherwise
\* ERROR with path and c then ERROR with the trimmed stderr), and the walk
\* goes on to the next file of the same directory.
C1_ExitCodeLines ==
    [][ScanReturned =>
        /\ log' = log \o ExpectedLines(Last(scans').path, process'.returncode)
        /\ pc' = "files"
        /\ idx' = idx + 1
        /\ stack' = stack]_vars

C1_Witness ==
    /\ pc = "done"
    /\ Count("CLEAN") > 0
    /\ Count("INFECTED") > 0
    /\ Count("ERROR scanning") > 0

\* C2: once a scanner launch has failed with FileNotFoundError, the run is
\* over: the missing-binary line is in the log exactly once and is its last
\* line, the failed launch is the last scanner invocation, and nothing more
\* is checked, listed or visited.
C2_MissingBinaryAborts ==
    Raised("FileNotFoundError") =>
        /\ pc = "done"
        /\ Count("clamscan not found") = 1
        /\ Last(log).msg = "clamscan not found"
        /\ Last(log).level = "ERROR"
        /\ Last(scans).result = "FileNotFoundError"
        /\ Cardinality({i \in DOMAIN scans : scans[i].result = "FileNotFoundError"}) = 1
        /\ st.path = Last(scans).path
        /\ Last(visited) = root

\* the abort leaves directories and files unvisited
C2_Witness ==
    /\ Raised("FileNotFoundError")
    /\ Len(scans) > 1
    /\ stack # <<>>
    /\ idx <= Len(files)
    /\ \E d \in AllDirs : \A i \in DOMAIN visited : visited[i] # d

\* C3: a run whose root is not an existing directory logs exactly one line,
\* at ERROR level, lists and visits no directory and never invokes the scanner.
C3_InvalidRoot ==
    (rootKind # "dir" /\ pc # "entry") =>
        /\ pc = "done"
        /\ Len(log) = 1
        /\ log[1].level = "ERROR"
        /\ log[1].msg = "not a valid directory"
        /\ visited = <<>>
        /\ listFailed = {}
        /\ checked = {}
        /\ scans = <<>>

C3_Witness == rootKind = "file" /\ pc = "done" /\ Len(log) = 1

C5_OnlyRegularScanned ==
    \A i \in DOMAIN scans : scans[i].type = "reg"

NoneVisitedBelow(d) ==
    /\ \A i \in DOMAIN visited : visited[i] # d => ~IsPrefix(d, visited[i])
    /\ \A f \in checked : ~IsPrefix(d, f)

\* C6 as stated: a directory whose listing failed with a permission error is
\* in the inaccessible-directory set and has a 'Permission denied' WARNING
\* line, nothing below it is visited or scanned, and the run still completes.
C6_PermissionDeniedRecorded ==
    pc = "done" =>
        \A f \in listFailed : f.err = "PermissionError" =>
            /\ f.path \in inaccessible_dirs
            /\ \E i \in DOMAIN log :
                  /\ log[i].msg = "Permission denied"
                  /\ log[i].level = "WARNING"
                  /\ log[i].path = f.path
            /\ NoneVisitedBelow(f.path)
            /\ ~Raised("FileNotFoundError") => Last(log).msg = "audit completed"

WasVisited(d) == \E i \in DOMAIN visited : visited[i] = d

Reachable(d) == d = start_path \/ WasVisited(SubSeq(d, 1, Len(d) - 1))

\* C7 as stated: at the end of a run every directory reachable from the root
\* was either listed with all its file entries checked and all its
\* subdirectories handled, or is in the inaccessible-directory set with
\* nothing below it visited.
C7_ListedOrInaccessible ==
    (pc = "done" /\ rootKind = "dir") =>
        \A d \in AllDirs : Reachable(d) =>
            \/ /\ WasVisited(d)
               /\ FilesOf(d) \subseteq checked
            \/ /\ d \in inaccessible_dirs
               /\ NoneVisitedBelow(d)

Named(d) ==
    \E i \in DOMAIN log :
        log[i].msg \in {"Permission denied", "traversal error"} /\ log[i].path = d

\* C8 as stated: only an invalid root or a missing scanner ends the run
\* early; an unexpected scanner failure is logged at ERROR level with the
\* file's path, a failure local to one directory is logged, and nothing
\* propagates to the caller.
C8_FailuresContained ==
    /\ pc # "raised"
    /\ pc = "done" =>
          /\ (Last(log).msg # "audit completed") =>
                (~isdir(rootKind) \/ Raised("FileNotFoundError"))
          /\ \A i \in DOMAIN scans : scans[i].result = "PermissionError" =>
                \E k \in DOMAIN log :
                    /\ log[k].msg = "unexpected error"
                    /\ log[k].level = "ERROR"
                    /\ log[k].path = scans[i].path
          /\ \A f \in listFailed : Named(f.path)

LastMsg == IF log = <<>> THEN "" ELSE Last(log).msg

LastLevel == IF log = <<>> THEN "" ELSE Last(log).level

EndsProperly ==
    /\ Count("audit completed") <= 1
    /\ Count("audit completed") = 1 =>
          /\ LastMsg = "audit completed"
          /\ LastLevel = "INFO"
          /\ Count("clamscan not found") = 0
          /\ pc = "done"
    /\ (pc = "done" /\ rootKind = "dir") =>
          \/ LastMsg = "audit completed"
          \/ LastMsg = "clamscan not found" /\ LastLevel = "ERROR"

\* C9: every run terminates; a run with a valid root ends with the INFO
\* completion line, logged once and last, or with the scanner-not-found ERROR
\* line as its last line, and never has both.
C9_Terminates == <>(pc = "done") /\ []EndsProperly

C9_Witness ==
    /\ pc = "done"
    /\ Last(log).msg = "audit completed"
    /\ Len(scans) > 1
    /\ listFailed # {}

====
